---- MODULE Spec2Model ----
(***************************************************************************)
(* A model of the simulation core of shooting_game.py (class Game): the    *)
(* frame loop of Game.run, the round state (playing / paused), the target  *)
(* list, the spawn schedule with its difficulty ramp, click resolution and *)
(* scoring, target expiry, the end of a round and the floating texts.      *)
(*                                                                         *)
(* Units.  The program measures time in seconds as floats obtained from    *)
(* pygame.time.get_ticks() / 1000.0; the model measures time in integer    *)
(* milliseconds and computes exactly (float rounding is not modelled).     *)
(* Every time constant of the program is therefore written in ms.          *)
(* Coordinates and radii are integer pixels.  The ring fractions of        *)
(* RING_FRACS are written in twentieths (0.25 = 5/20, 0.55 = 11/20,        *)
(* 1.00 = 20/20) so that the squared-distance tests stay in the integers.  *)
(***************************************************************************)
EXTENDS Integers, Sequences, FiniteSets, TLC

VARIABLES
    now,             \* the clock value of the current frame (run, line 346)
    pc,              \* position in the frame loop of run: "tick", "events", "draw"
    round_time,      \* the configured ROUND_TIME: {ms} or {} for None (endless)
    playing,         \* self.playing
    paused,          \* self.paused
    targets,         \* self.targets: sequence of Target records
    spawn_interval,  \* self.spawn_interval
    last_spawn,      \* self.last_spawn
    start_time,      \* self.start_time
    elapsed,         \* self.elapsed
    score,           \* self.score
    hits,            \* self.hits
    misses,          \* self.misses
    timeouts,        \* self.timeouts
    best_score,      \* self.best_score
    floating_texts,  \* self.floating_texts
    h_played,        \* history: time of this round spent playing and not paused
    h_rings,         \* history: hits of this round per ring <<bullseye, middle, outer>>
    h_finals,        \* history: the final scores of the rounds that have ended, in order
    h_click,         \* history: the point of the last click of this frame's events
                     \* handled while playing, <<>> if none
    inputs_left,     \* budget: input events still to handle, round-start clicks aside
    frames_left      \* budget: frames still to run

vars == <<now, pc, round_time, playing, paused, targets, spawn_interval,
          last_spawn, start_time, elapsed, score, hits, misses, timeouts,
          best_score, floating_texts, h_played, h_rings, h_finals, h_click,
          inputs_left, frames_left>>

\* Everything Game.update may assign, and the record of the rounds it ends.
simVars == <<playing, targets, spawn_interval, last_spawn, elapsed, score,
             timeouts, best_score, floating_texts, h_finals>>

----------------------------------------------------------------------------
(* Configuration (lines 18-38), times in ms.                               *)

WIDTH == 900
HEIGHT == 600
TARGET_MIN_RADIUS == 16
TARGET_MAX_RADIUS == 36
TARGET_LIFETIME == 1500
SPAWN_INTERVAL_START == 850
SPAWN_INTERVAL_MIN == 350
SPAWN_ACCEL_EVERY == 5000
SPAWN_ACCEL_STEP == 40
MAX_TARGETS_ON_SCREEN == 7
MISS_SCORE == -5
TIMEOUT_SCORE == -3
RING_SCORES == <<10, 5, 1>>
RING_FRACS == <<5, 11, 20>>
FRAC_DENOM == 20
ROUND_TIME == 15000
\* draw keeps a floating text while its age is below 0.7 s (line 261)
FLOAT_TEXT_AGE == 700

----------------------------------------------------------------------------
(* Bounds of the model.                                                    *)

\* Frames and input events (round-start clicks aside) of a run of Spec.
MaxFrames == 6
MaxInputs == 2
\* The same for SpecFine, whose frames are short.
MaxFramesFine == 8
MaxInputsFine == 1
\* The same for SpecClicks, whose runs are short and have more clicks.
MaxFramesClicks == 5
MaxInputsClicks == 3
\* The same for SpecEndless.
MaxFramesEndless == 5
MaxInputsEndless == 1
\* SpecLive: the input events of a run, K_p while paused aside, and the last
\* clock value at which a round is started.
MaxInputsLive == 2
MaxStartNow == 10000
\* The same for SpecAnyClock.
MaxFramesAnyClock == 5
MaxInputsAnyClock == 1

\* Frame durations (clock.tick + get_ticks, lines 345-346): a slow frame of
\* one start spawn interval and a long stall; 850 + 14150 is ROUND_TIME.
Steps == {850, 14150}
\* Frame durations of the fine-grained specification.
FineSteps == {100, 850}
\* Frame durations of the specification with more clicks.
ClickSteps == {850}

\* Frame durations of SpecLive: the clock advances until every round that
\* was started is due to end, and frames follow one another from then on.
LiveSteps == {7500, 10000}
MaxNowLive == MaxStartNow + ROUND_TIME

\* Clock values that do not only grow: update and handle_click take the
\* clock value as a parameter (lines 127, 173), and a caller other than run
\* may hand them an earlier one.
AnyClockSteps == {-850, 850}

\* The draws of spawn_target that the model samples: <<x, y, r, lifetime>>.
Draws ==
    { [x |-> 300, y |-> 300, r |-> 36, lifetime |-> 1700],
      [x |-> 318, y |-> 300, r |-> 20, lifetime |-> 1300] }

\* The click positions (event.pos) that the model samples.
ClickPoints ==
    { <<5, 5>>, <<300, 300>>, <<309, 300>>, <<313, 300>>,
      <<329, 300>>, <<338, 300>>, <<339, 300>> }

----------------------------------------------------------------------------
(* Helpers.                                                                *)

Max(a, b) == IF a >= b THEN a ELSE b
Min(a, b) == IF a <= b THEN a ELSE b

\* clamp (lines 74-75)
clamp(v, lo, hi) == Max(lo, Min(hi, v))

\* make_float_text's tuple (lines 224-225)
FloatText(text, color, x, y, birth) ==
    [text |-> text, color |-> color, x |-> x, y |-> y, birth |-> birth]

\* f"+{award}", f"-{abs(TIMEOUT_SCORE)}" and str(MISS_SCORE) on the values used
ScoreText(n) ==
    CASE n = 10 -> "+10"
      [] n = 5  -> "+5"
      [] n = 1  -> "+1"
      [] n = -3 -> "-3"
      [] n = -5 -> "-5"
      [] OTHER  -> "?"

----------------------------------------------------------------------------
(* spawn_target (lines 166-171)                                            *)

\* The ranges of the four random.uniform draws.
ValidDraw(c) ==
    /\ TARGET_MIN_RADIUS <= c.r /\ c.r <= TARGET_MAX_RADIUS
    /\ c.r + 8 <= c.x /\ c.x <= WIDTH - c.r - 8
    /\ c.r + 8 + 40 <= c.y /\ c.y <= HEIGHT - c.r - 8
    /\ 85 * TARGET_LIFETIME <= 100 * c.lifetime
    /\ 100 * c.lifetime <= 115 * TARGET_LIFETIME

\* The targets spawn_target(n) may append.
SpawnedTargets(n) ==
    { [x |-> c.x, y |-> c.y, r |-> c.r, spawn_time |-> n, lifetime |-> c.lifetime] :
        c \in {d \in Draws : ValidDraw(d)} }

----------------------------------------------------------------------------
(* update (lines 127-164)                                                  *)

\* The ramp without the lower limit of clamp.
SpawnIntervalUnclamped(e, cur) ==
    IF SPAWN_ACCEL_EVERY # 0 /\ e > 0
    THEN Min(SPAWN_INTERVAL_START,
             SPAWN_INTERVAL_START - (e \div SPAWN_ACCEL_EVERY) * SPAWN_ACCEL_STEP)
    ELSE cur

\* Difficulty ramp (lines 136-142): the interval after an update at elapsed e.
SpawnIntervalAt(e, cur) ==
    IF SPAWN_ACCEL_EVERY # 0 /\ e > 0
    THEN clamp(SPAWN_INTERVAL_START - (e \div SPAWN_ACCEL_EVERY) * SPAWN_ACCEL_STEP,
               SPAWN_INTERVAL_MIN, SPAWN_INTERVAL_START)
    ELSE cur

\* The spawn condition with "or" written for "and".
SpawnDueEither(n, last, interval, ts) ==
    n - last >= interval \/ Len(ts) < MAX_TARGETS_ON_SCREEN

\* The spawn condition with ">" written for ">=".
SpawnDueLate(n, last, interval, ts) ==
    n - last > interval /\ Len(ts) < MAX_TARGETS_ON_SCREEN

\* The spawn condition (lines 145-146).
SpawnDue(n, last, interval, ts) ==
    n - last >= interval /\ Len(ts) < MAX_TARGETS_ON_SCREEN

\* The expiry test with ">=" written for ">".
TimedOutAtLifetime(t, n) == n - t.spawn_time >= t.lifetime

\* The expiry test (line 153).
TimedOut(t, n) == n - t.spawn_time > t.lifetime

\* The list alive (lines 151-159).
Alive(ts, n) == SelectSeq(ts, LAMBDA t : ~TimedOut(t, n))

\* The targets the expiry loop penalises, in list order.
Expired(ts, n) == SelectSeq(ts, LAMBDA t : TimedOut(t, n))

\* The floating texts the expiry loop appends (line 156).
TimeoutTexts(ts, n) ==
    [i \in 1..Len(Expired(ts, n)) |->
        FloatText(ScoreText(TIMEOUT_SCORE), "RED",
                  Expired(ts, n)[i].x, Expired(ts, n)[i].y, n)]

\* The end-of-round test with ">" written for ">=".
RoundEndsLate(e, rt) == \E limit \in rt : e > limit

\* The end-of-round test without "ROUND_TIME is not None": None ends the
\* round at once.
RoundEndsUnguarded(e, rt) == rt = {} \/ \E limit \in rt : e >= limit

\* The end-of-round test with "==" written for ">=".
RoundEndsOnEquality(e, rt) == \E limit \in rt : e = limit

\* The end-of-round test (line 162).
RoundEnds(e, rt) == \E limit \in rt : e >= limit

\* The best score with the final score written over it.
BestAfterLast(best, sc) == sc

\* best_score after a round that ends with score sc (line 163).
BestAfter(best, sc) == Max(best, sc)

\* Lines 133-164 once the spawn step has produced the list ts and last_spawn ls.
Simulate(ts, ls) ==
    LET e == now - start_time
        n_out == Len(Expired(ts, now))
        sc == score + n_out * TIMEOUT_SCORE
    IN  /\ elapsed' = e
        /\ spawn_interval' = SpawnIntervalAt(e, spawn_interval)
        /\ last_spawn' = ls
        /\ targets' = Alive(ts, now)
        /\ score' = sc
        /\ timeouts' = timeouts + n_out
        /\ floating_texts' = floating_texts \o TimeoutTexts(ts, now)
        /\ IF RoundEnds(e, round_time)
           THEN /\ best_score' = BestAfter(best_score, sc)
                /\ playing' = FALSE
                /\ h_finals' = Append(h_finals, sc)
           ELSE UNCHANGED <<best_score, playing, h_finals>>

\* update with the test of paused only.
UpdateReturnsIfPaused == paused

\* The early returns of update (lines 129-132).
UpdateReturns == ~playing \/ paused

Update ==
    /\ pc = "events"
    /\ pc' = "draw"
    /\ h_click' = <<>>
    /\ UNCHANGED <<now, round_time, paused, start_time, hits, misses,
                   h_played, h_rings, inputs_left, frames_left>>
    /\ IF UpdateReturns
       THEN UNCHANGED simVars
       ELSE IF SpawnDue(now, last_spawn,
                        SpawnIntervalAt(now - start_time, spawn_interval), targets)
            THEN \E t \in SpawnedTargets(now) : Simulate(Append(targets, t), now)
            ELSE Simulate(targets, last_spawn)

----------------------------------------------------------------------------
(* start_round (lines 113-125)                                             *)

\* start_round without the clearing of the target list.
StartRoundKeepsTargets(n) ==
    /\ playing' = TRUE
    /\ spawn_interval' = SPAWN_INTERVAL_START
    /\ last_spawn' = n
    /\ start_time' = n
    /\ elapsed' = 0
    /\ score' = 0
    /\ hits' = 0
    /\ misses' = 0
    /\ timeouts' = 0
    /\ floating_texts' = <<>>
    /\ h_played' = 0
    /\ h_rings' = <<0, 0, 0>>
    /\ UNCHANGED <<targets, paused, best_score, h_finals, h_click, inputs_left,
                   frames_left>>

StartRound(n) ==
    /\ playing' = TRUE
    /\ targets' = <<>>
    /\ spawn_interval' = SPAWN_INTERVAL_START
    /\ last_spawn' = n
    /\ start_time' = n
    /\ elapsed' = 0
    /\ score' = 0
    /\ hits' = 0
    /\ misses' = 0
    /\ timeouts' = 0
    /\ floating_texts' = <<>>
    /\ h_played' = 0
    /\ h_rings' = <<0, 0, 0>>
    /\ UNCHANGED <<paused, best_score, h_finals, h_click, inputs_left,
                   frames_left>>

----------------------------------------------------------------------------
(* handle_click (lines 173-222)                                            *)

\* d2 of lines 186-188
Dist2(t, pos) == (pos[1] - t.x) * (pos[1] - t.x) + (pos[2] - t.y) * (pos[2] - t.y)

\* The ring test with "<" written for "<=".
WithinRingStrict(t, d2, k) ==
    FRAC_DENOM * FRAC_DENOM * d2 < (t.r * RING_FRACS[k]) * (t.r * RING_FRACS[k])

\* d2 <= (t.r * RING_FRACS[k]) ** 2 (lines 191, 196, 198)
WithinRing(t, d2, k) ==
    FRAC_DENOM * FRAC_DENOM * d2 <= (t.r * RING_FRACS[k]) * (t.r * RING_FRACS[k])

\* ring_idx_for_hit of lines 196-201, 1-based
RingIdx(t, d2) ==
    IF WithinRing(t, d2, 1) THEN 1
    ELSE IF WithinRing(t, d2, 2) THEN 2
    ELSE 3

\* closest_d2 starts at 1e12 (line 182), which is above every squared
\* distance inside the window; so is this.
CLOSEST_D2_START == WIDTH * WIDTH + HEIGHT * HEIGHT

\* The test with "<=" written for "<": the last of the closest targets wins.
CloserOrEqual(t, d2, closest_d2) == WithinRing(t, d2, 3) /\ d2 <= closest_d2

\* The test without the comparison with the closest distance so far.
CloserUnchecked(t, d2, closest_d2) == WithinRing(t, d2, 3)

\* Whether the loop body replaces the current candidate (lines 191-192).
Closer(t, d2, closest_d2) == WithinRing(t, d2, 3) /\ d2 < closest_d2

\* The loop of lines 185-201 from index i on; hit_index is 1-based and 0
\* stands for -1, ring 0 for None.
RECURSIVE ScanTargets(_, _, _, _)
ScanTargets(ts, pos, i, acc) ==
    IF i > Len(ts) THEN acc
    ELSE LET d2 == Dist2(ts[i], pos)
         IN  ScanTargets(ts, pos, i + 1,
                IF Closer(ts[i], d2, acc.closest_d2)
                THEN [hit_index |-> i, closest_d2 |-> d2, ring |-> RingIdx(ts[i], d2)]
                ELSE acc)

FindHit(ts, pos) ==
    ScanTargets(ts, pos, 1,
                [hit_index |-> 0, closest_d2 |-> CLOSEST_D2_START, ring |-> 0])

\* self.targets.pop(hit_index) (line 204)
Pop(ts, i) == SubSeq(ts, 1, i - 1) \o SubSeq(ts, i + 1, Len(ts))

\* The feedback color by ring (lines 210-215)
AwardColor(award) ==
    IF award = 10 THEN "GREEN" ELSE IF award = 5 THEN "CYAN" ELSE "WHITE"

\* The award with the ring scores read in the reverse order.
AwardReversed(ring) == RING_SCORES[4 - ring]

\* award (line 205)
Award(ring) == RING_SCORES[ring]

\* Lines 203-217
ResolveHit(found) ==
    LET t == targets[found.hit_index]
        award == Award(found.ring)
    IN  /\ targets' = Pop(targets, found.hit_index)
        /\ score' = score + award
        /\ hits' = hits + 1
        /\ floating_texts' =
              Append(floating_texts,
                     FloatText(ScoreText(award), AwardColor(award), t.x, t.y, now))
        /\ h_rings' = [h_rings EXCEPT ![found.ring] = @ + 1]
        /\ UNCHANGED misses

\* The miss branch charging the timeout penalty.
ResolveMissAsTimeout(pos) ==
    /\ score' = score + TIMEOUT_SCORE
    /\ misses' = misses + 1
    /\ floating_texts' =
          Append(floating_texts,
                 FloatText(ScoreText(TIMEOUT_SCORE), "RED", pos[1], pos[2], now))
    /\ UNCHANGED <<targets, hits, h_rings>>

\* Lines 218-222
ResolveMiss(pos) ==
    /\ score' = score + MISS_SCORE
    /\ misses' = misses + 1
    /\ floating_texts' =
          Append(floating_texts,
                 FloatText(ScoreText(MISS_SCORE), "RED", pos[1], pos[2], now))
    /\ UNCHANGED <<targets, hits, h_rings>>

\* handle_click returning at once while paused, as update does.
HandleClickUnlessPaused(pos) ==
    IF ~playing
    THEN StartRound(now)
    ELSE /\ inputs_left > 0
         /\ inputs_left' = inputs_left - 1
         /\ h_click' = pos
         /\ LET found == FindHit(targets, pos)
            IN  IF paused
                THEN UNCHANGED <<targets, score, hits, misses, floating_texts, h_rings>>
                ELSE IF found.hit_index >= 1 /\ found.ring # 0
                     THEN ResolveHit(found)
                     ELSE ResolveMiss(pos)
         /\ UNCHANGED <<playing, paused, spawn_interval, last_spawn, start_time,
                        elapsed, timeouts, best_score, h_played, h_finals,
                        frames_left>>

HandleClick(pos) ==
    IF ~playing
    THEN StartRound(now)
    ELSE /\ inputs_left > 0
         /\ inputs_left' = inputs_left - 1
         /\ h_click' = pos
         /\ LET found == FindHit(targets, pos)
            IN  IF found.hit_index >= 1 /\ found.ring # 0
                THEN ResolveHit(found)
                ELSE ResolveMiss(pos)
         /\ UNCHANGED <<playing, paused, spawn_interval, last_spawn, start_time,
                        elapsed, timeouts, best_score, h_played, h_finals,
                        frames_left>>

----------------------------------------------------------------------------
(* handle_events (lines 325-337): one action per event kind                *)

\* MOUSEBUTTONDOWN, button 1 (lines 336-337)
Click ==
    /\ pc = "events"
    /\ \E pos \in ClickPoints : HandleClick(pos)
    /\ UNCHANGED <<now, pc, round_time>>

\* K_p without the test of playing.
TogglePauseAnytime ==
    /\ pc = "events"
    /\ inputs_left > 0
    /\ inputs_left' = inputs_left - 1
    /\ paused' = ~paused
    /\ UNCHANGED <<now, pc, round_time, playing, targets, spawn_interval,
                   last_spawn, start_time, elapsed, score, hits, misses,
                   timeouts, best_score, floating_texts, h_played, h_rings,
                   h_finals, h_click, frames_left>>

\* KEYDOWN K_p (lines 334-335)
TogglePause ==
    /\ pc = "events"
    /\ playing
    /\ inputs_left > 0
    /\ inputs_left' = inputs_left - 1
    /\ paused' = ~paused
    /\ UNCHANGED <<now, pc, round_time, playing, targets, spawn_interval,
                   last_spawn, start_time, elapsed, score, hits, misses,
                   timeouts, best_score, floating_texts, h_played, h_rings,
                   h_finals, h_click, frames_left>>

\* K_r clearing the score of the round as well.
ResetBestAndScore ==
    /\ pc = "events"
    /\ inputs_left > 0
    /\ inputs_left' = inputs_left - 1
    /\ best_score' = 0
    /\ score' = 0
    /\ UNCHANGED <<now, pc, round_time, playing, paused, targets,
                   spawn_interval, last_spawn, start_time, elapsed,
                   hits, misses, timeouts, floating_texts, h_played, h_rings,
                   h_finals, h_click, frames_left>>

\* KEYDOWN K_p while paused (lines 334-335), outside the budget of inputs.
Resume ==
    /\ pc = "events"
    /\ playing
    /\ paused
    /\ paused' = ~paused
    /\ UNCHANGED <<now, pc, round_time, playing, targets, spawn_interval,
                   last_spawn, start_time, elapsed, score, hits, misses,
                   timeouts, best_score, floating_texts, h_played, h_rings,
                   h_finals, h_click, inputs_left, frames_left>>

\* KEYDOWN K_r (lines 332-333)
ResetBest ==
    /\ pc = "events"
    /\ inputs_left > 0
    /\ inputs_left' = inputs_left - 1
    /\ best_score' = 0
    /\ UNCHANGED <<now, pc, round_time, playing, paused, targets,
                   spawn_interval, last_spawn, start_time, elapsed, score,
                   hits, misses, timeouts, floating_texts, h_played, h_rings,
                   h_finals, h_click, frames_left>>

----------------------------------------------------------------------------
(* draw (lines 257-266): the pruning of the floating texts                 *)

Draw ==
    /\ pc = "draw"
    /\ pc' = "tick"
    /\ floating_texts' =
          SelectSeq(floating_texts, LAMBDA f : now - f.birth < FLOAT_TEXT_AGE)
    /\ UNCHANGED <<now, round_time, playing, paused, targets, spawn_interval,
                   last_spawn, start_time, elapsed, score, hits, misses,
                   timeouts, best_score, h_played, h_rings, h_finals, h_click,
                   inputs_left, frames_left>>

----------------------------------------------------------------------------
(* run (lines 342-350): the clock of the next frame                        *)

Tick(d) ==
    /\ pc = "tick"
    /\ frames_left > 0
    /\ frames_left' = frames_left - 1
    /\ now' = now + d
    /\ pc' = "events"
    /\ h_played' = IF playing /\ ~paused THEN h_played + d ELSE h_played
    /\ UNCHANGED <<round_time, playing, paused, targets, spawn_interval,
                   last_spawn, start_time, elapsed, score, hits, misses,
                   timeouts, best_score, floating_texts, h_rings, h_finals,
                   h_click, inputs_left>>

NextFrame == \E d \in Steps : Tick(d)

NextFrameFine == \E d \in FineSteps : Tick(d)

NextFrameClicks == \E d \in ClickSteps : Tick(d)

NextFrameAnyClock == \E d \in AnyClockSteps : Tick(d)

\* A frame outside the budget of frames.
TickLive(d) ==
    /\ pc = "tick"
    /\ now' = now + d
    /\ pc' = "events"
    /\ h_played' = IF playing /\ ~paused THEN h_played + d ELSE h_played
    /\ UNCHANGED <<round_time, playing, paused, targets, spawn_interval,
                   last_spawn, start_time, elapsed, score, hits, misses,
                   timeouts, best_score, floating_texts, h_rings, h_finals,
                   h_click, inputs_left, frames_left>>

NextFrameLive ==
    \E d \in (IF now < MaxNowLive THEN LiveSteps ELSE {0}) : TickLive(d)

\* Clicks, of which those that start a round come no later than MaxStartNow.
ClickLive == (playing \/ now <= MaxStartNow) /\ Click

----------------------------------------------------------------------------
(* reset (lines 92-108) and the specifications                             *)

\* The state reset leaves (lines 92-108), with the configured ROUND_TIME
\* (line 38) and the budgets of a run.
StartWith(rt, frames, inputs) ==
    /\ now = 0
    /\ pc = "tick"
    /\ round_time = rt
    /\ playing = FALSE
    /\ paused = FALSE
    /\ targets = <<>>
    /\ spawn_interval = SPAWN_INTERVAL_START
    /\ last_spawn = 0
    /\ start_time = 0
    /\ elapsed = 0
    /\ score = 0
    /\ hits = 0
    /\ misses = 0
    /\ timeouts = 0
    /\ best_score = 0
    /\ floating_texts = <<>>
    /\ h_played = 0
    /\ h_rings = <<0, 0, 0>>
    /\ h_finals = <<>>
    /\ h_click = <<>>
    /\ inputs_left = inputs
    /\ frames_left = frames

Start(frames, inputs) == StartWith({ROUND_TIME}, frames, inputs)

Init == Start(MaxFrames, MaxInputs)

Next == NextFrame \/ Click \/ TogglePause \/ ResetBest \/ Update \/ Draw

Spec == Init /\ [][Next]_vars

\* Short frames: the frame loop at a tenth of a second.
InitFine == Start(MaxFramesFine, MaxInputsFine)

NextFine == NextFrameFine \/ Click \/ TogglePause \/ ResetBest \/ Update \/ Draw

SpecFine == InitFine /\ [][NextFine]_vars

\* Short runs with more clicks.
InitClicks == Start(MaxFramesClicks, MaxInputsClicks)

NextClicks == NextFrameClicks \/ Click \/ TogglePause \/ ResetBest \/ Update \/ Draw

SpecClicks == InitClicks /\ [][NextClicks]_vars

\* The operations of Game called with clock values that may go back.
InitAnyClock == Start(MaxFramesAnyClock, MaxInputsAnyClock)

NextAnyClock ==
    NextFrameAnyClock \/ Click \/ TogglePause \/ ResetBest \/ Update \/ Draw

SpecAnyClock == InitAnyClock /\ [][NextAnyClock]_vars

\* ROUND_TIME = None: endless rounds.
InitEndless == StartWith({}, MaxFramesEndless, MaxInputsEndless)

SpecEndless == InitEndless /\ [][Next]_vars

\* Runs without end: the loop of run goes on (lines 344-350), the clock
\* advances, and a paused game is resumed sooner or later.
InitLive == Start(0, MaxInputsLive)

NextLive ==
    NextFrameLive \/ ClickLive \/ TogglePause \/ Resume \/ ResetBest
        \/ Update \/ Draw

Fairness ==
    /\ WF_vars(NextFrameLive)
    /\ WF_vars(Update)
    /\ WF_vars(Draw)
    /\ SF_vars(Resume)

SpecLive == InitLive /\ [][NextLive]_vars /\ Fairness

\* Runs in which K_r is never pressed.
NextNoReset == NextFrame \/ Click \/ TogglePause \/ Update \/ Draw

SpecNoReset == Init /\ [][NextNoReset]_vars

----------------------------------------------------------------------------
(* Steps of the frame loop, told apart by the position they leave.         *)

\* A step of update that runs the simulation (playing and not paused).
UpdateRuns == pc = "events" /\ pc' = "draw" /\ playing /\ ~paused

\* A step of update that returns at once (lines 129-132).
UpdateSkips == pc = "events" /\ pc' = "draw" /\ (~playing \/ paused)

\* A step of handle_click at pos.
ClickAt(pos) == pc = "events" /\ pc' = "events" /\ HandleClick(pos)
                    /\ UNCHANGED <<now, round_time>>

\* The targets of ts that TimedOut does not select, by the claim's words:
\* age now - spawnTime at most lifetime.
Young(ts, n) == SelectSeq(ts, LAMBDA t : n - t.spawn_time <= t.lifetime)

----------------------------------------------------------------------------
(* C1.  The number of live targets never exceeds MAX_TARGETS_ON_SCREEN,    *)
(* which is 7, and a step of update that appends a target starts with      *)
(* fewer than 7 live targets.  An appended target is the last of the list  *)
(* and carries the current clock value as its spawn time.                  *)

TargetAppended ==
    /\ pc = "events" /\ pc' = "draw"
    /\ last_spawn' = now
    /\ \/ Len(targets') = 0
       \/ targets'[Len(targets')].spawn_time = now
    /\ \A i \in 1..Len(targets) : targets[i].spawn_time # now

C1_Capacity ==
    /\ MAX_TARGETS_ON_SCREEN = 7
    /\ Len(targets) <= 7
    /\ [][ /\ Len(targets') <= 7
           /\ TargetAppended => Len(targets) < 7 ]_vars

\* update has just appended a third live target.
C1_Witness ==
    /\ pc = "draw"
    /\ Len(targets) = 3
    /\ targets[3].spawn_time = now

----------------------------------------------------------------------------
(* C2.  Pause freezes the simulation: time spent paused is never counted.  *)
(* Every update that runs leaves elapsed equal to the time of the round    *)
(* spent playing and not paused, and ends the round only when that time    *)
(* has reached ROUND_TIME.                                                 *)

C2_PauseFreezes ==
    [][ UpdateRuns =>
          /\ elapsed' = h_played
          /\ (~playing' => h_played >= ROUND_TIME) ]_vars

----------------------------------------------------------------------------
(* C3.  A round ends in an update that runs with now - start_time at least *)
(* ROUND_TIME and in no other step; every such update ends it; that update *)
(* sets best_score to the larger of best_score and the final score; no     *)
(* other update changes best_score; playing becomes true again only by a   *)
(* click that starts a round.                                              *)

C3_RoundTermination ==
    [][ /\ (playing /\ ~playing') =>
              /\ UpdateRuns
              /\ now - start_time >= ROUND_TIME
              /\ best_score' = (IF score' > best_score THEN score' ELSE best_score)
        /\ (UpdateRuns /\ now - start_time >= ROUND_TIME) => ~playing'
        /\ (UpdateRuns /\ now - start_time < ROUND_TIME) =>
              (playing' /\ best_score' = best_score)
        /\ UpdateSkips => (playing' = playing /\ best_score' = best_score)
        /\ (~playing /\ playing') =>
              (pc = "events" /\ pc' = "events" /\ start_time' = now) ]_vars

\* A round has ended exactly at ROUND_TIME with a score below the best score
\* that an earlier round has left.
C3_Witness ==
    /\ pc = "draw"
    /\ ~playing
    /\ elapsed = ROUND_TIME
    /\ best_score > 0
    /\ score < best_score

----------------------------------------------------------------------------
(* The words of the claims about a click at pos and a target t.            *)

\* The squared distance from the center of t to pos.
SqDist(t, pos) ==
    (t.x - pos[1]) * (t.x - pos[1]) + (t.y - pos[2]) * (t.y - pos[2])

\* The indices of the live targets whose outer radius reaches pos.
Reaching(pos) ==
    {i \in 1..Len(targets) : SqDist(targets[i], pos) <= targets[i].r * targets[i].r}

\* The points of a click at squared distance d2 from the center of a target
\* of radius R: 10 if d <= 0.25 R, 5 if 0.25 R < d <= 0.55 R, 1 if
\* 0.55 R < d <= R (0.25 = 1/4 and 0.55 = 11/20, squared).
RingPoints(R, d2) ==
    IF 16 * d2 <= R * R THEN 10
    ELSE IF 400 * d2 <= 121 * R * R THEN 5
    ELSE 1

\* The list ts without its i-th element.
Without(ts, i) ==
    [k \in 1..(Len(ts) - 1) |-> IF k < i THEN ts[k] ELSE ts[k + 1]]

----------------------------------------------------------------------------
(* C4.  At every state score = 10 * bullseye hits + 5 * middle hits +      *)
(* outer hits - 5 * misses - 3 * timeouts of the current round, and hits   *)
(* is the sum of the three hit counts.                                     *)

C4_ScoreBookkeeping ==
    /\ score = 10 * h_rings[1] + 5 * h_rings[2] + h_rings[3]
                 - 5 * misses - 3 * timeouts
    /\ hits = h_rings[1] + h_rings[2] + h_rings[3]

\* One bullseye, one outer hit, one miss and one timeout: score 3.
C4_Witness ==
    /\ h_rings = <<1, 0, 1>>
    /\ misses = 1
    /\ timeouts = 1
    /\ score = 3
    /\ hits = 2

----------------------------------------------------------------------------
(* C5.  A click while playing at a point that the outer radius of at least *)
(* one live target reaches hits a target whose center is closest to the    *)
(* point among those targets: that one target leaves the list, the others  *)
(* keep their order, and the score grows by the points of the ring of that *)
(* target's own radius and distance.                                       *)

C5_ClosestHit ==
    [][ \A pos \in ClickPoints :
          (ClickAt(pos) /\ playing /\ Reaching(pos) # {}) =>
             \E i \in Reaching(pos) :
                /\ \A j \in Reaching(pos) :
                      SqDist(targets[i], pos) <= SqDist(targets[j], pos)
                /\ targets' = Without(targets, i)
                /\ Len(targets') = Len(targets) - 1
                /\ score' = score + RingPoints(targets[i].r, SqDist(targets[i], pos))
      ]_vars

\* A bullseye on the target at x = 318 (the click at 313) while the target
\* at x = 300, whose outer ring reaches that click too, stays alive.
C5_Witness ==
    /\ pc = "events"
    /\ \E k \in 1..Len(floating_texts) :
          /\ floating_texts[k].text = "+10"
          /\ floating_texts[k].x = 318
          /\ floating_texts[k].birth = now
    /\ \E i \in 1..Len(targets) : targets[i].x = 300

----------------------------------------------------------------------------
(* C6.  A click that hits a target of radius R at distance d scores 10 if  *)
(* d <= 0.25 R, 5 if 0.25 R < d <= 0.55 R and 1 if 0.55 R < d <= R, adds   *)
(* one to hits and appends one floating text at the target's center.       *)

C6_RingAward ==
    [][ \A pos \in ClickPoints : \A i \in 1..Len(targets) :
          (ClickAt(pos) /\ playing /\ hits' # hits /\ targets' = Without(targets, i)) =>
             LET pts == RingPoints(targets[i].r, SqDist(targets[i], pos))
             IN  /\ SqDist(targets[i], pos) <= targets[i].r * targets[i].r
                 /\ score' = score + pts
                 /\ hits' = hits + 1
                 /\ Len(floating_texts') = Len(floating_texts) + 1
                 /\ SubSeq(floating_texts', 1, Len(floating_texts)) = floating_texts
                 /\ floating_texts'[Len(floating_texts')].x = targets[i].x
                 /\ floating_texts'[Len(floating_texts')].y = targets[i].y
                 /\ floating_texts'[Len(floating_texts')].text =
                       (IF pts = 10 THEN "+10" ELSE IF pts = 5 THEN "+5" ELSE "+1")
      ]_vars

\* Hits on the inclusive boundaries of the target of radius 20 at x = 318:
\* d = 5 scores 10, d = 11 scores 5 and d = 20 scores 1.
C6_Witness ==
    /\ h_rings = <<1, 1, 1>>
    /\ score = 16
    /\ \A k \in 1..Len(floating_texts) : floating_texts[k].x = 318
    /\ Len(floating_texts) = 3

----------------------------------------------------------------------------
(* C7.  A click while playing at a point outside the outer radius of every *)
(* live target takes 5 from score, adds one to misses, appends one         *)
(* floating text at the click point and leaves the targets, hits,          *)
(* timeouts, playing, paused and best_score as they are.                   *)

C7_Miss ==
    [][ \A pos \in ClickPoints :
          (ClickAt(pos) /\ playing /\ Reaching(pos) = {}) =>
             /\ score' = score - 5
             /\ misses' = misses + 1
             /\ Len(floating_texts') = Len(floating_texts) + 1
             /\ SubSeq(floating_texts', 1, Len(floating_texts)) = floating_texts
             /\ floating_texts'[Len(floating_texts')].x = pos[1]
             /\ floating_texts'[Len(floating_texts')].y = pos[2]
             /\ floating_texts'[Len(floating_texts')].text = "-5"
             /\ UNCHANGED <<targets, hits, timeouts, playing, paused, best_score>>
      ]_vars

\* In one frame, a miss one pixel outside the outer ring of the live target
\* at x = 318 and then a miss in the HUD band.
C7_Witness ==
    /\ pc = "events"
    /\ playing
    /\ misses = 2
    /\ score = -10
    /\ Len(floating_texts) = 2
    /\ floating_texts[1].x = 339 /\ floating_texts[1].birth = now
    /\ floating_texts[2].x = 5 /\ floating_texts[2].y = 5
    /\ floating_texts[2].birth = now
    /\ \E i \in 1..Len(targets) : targets[i].x = 318

----------------------------------------------------------------------------
(* C8.  An update that runs at clock value now removes exactly the targets *)
(* with now - spawn_time > lifetime (a target whose age equals its         *)
(* lifetime stays), and for each of them takes 3 from score, adds one to   *)
(* timeouts and appends one floating text at its center; afterwards no     *)
(* live target is older than its lifetime and no removed target is still   *)
(* in the list, so that none is penalised again.                           *)

C8_ExpiryOnce ==
    [][ UpdateRuns =>
          LET kept == Young(targets, now)
              gone == SelectSeq(targets, LAMBDA t : now - t.spawn_time > t.lifetime)
              k == Len(gone)
          IN  /\ Len(kept) + k = Len(targets)
              /\ \/ targets' = kept
                 \/ /\ Len(targets') = Len(kept) + 1
                    /\ SubSeq(targets', 1, Len(kept)) = kept
                    /\ targets'[Len(targets')].spawn_time = now
              /\ score' = score - 3 * k
              /\ timeouts' = timeouts + k
              /\ Len(floating_texts') = Len(floating_texts) + k
              /\ SubSeq(floating_texts', 1, Len(floating_texts)) = floating_texts
              /\ \A m \in 1..k :
                    /\ floating_texts'[Len(floating_texts) + m].x = gone[m].x
                    /\ floating_texts'[Len(floating_texts) + m].y = gone[m].y
                    /\ floating_texts'[Len(floating_texts) + m].text = "-3"
              /\ \A i \in 1..Len(targets') :
                    now - targets'[i].spawn_time <= targets'[i].lifetime
              /\ \A m \in 1..k : \A i \in 1..Len(targets') : targets'[i] # gone[m]
      ]_vars

\* update has just removed a target and kept one whose age equals its
\* lifetime.
C8_Witness ==
    /\ pc = "draw"
    /\ playing
    /\ \E k \in 1..Len(floating_texts) :
          floating_texts[k].text = "-3" /\ floating_texts[k].birth = now
    /\ \E i \in 1..Len(targets) : now - targets[i].spawn_time = targets[i].lifetime

----------------------------------------------------------------------------
(* C9.  An update that runs at elapsed time t > 0 leaves spawn_interval    *)
(* equal to 850 - floor(t / 5000) * 40 limited to [350, 850] (770 at       *)
(* t = 12000); spawn_interval always lies in [350, 850], never grows in an *)
(* update and is 850 after a round start.                                  *)

Ramp(t) ==
    LET v == 850 - (t \div 5000) * 40
    IN  IF v < 350 THEN 350 ELSE IF v > 850 THEN 850 ELSE v

C9_DifficultyRamp ==
    /\ Ramp(12000) = 770
    /\ SpawnIntervalAt(12000, SPAWN_INTERVAL_START) = 770
    /\ spawn_interval = 850
    /\ [][ /\ 350 <= spawn_interval' /\ spawn_interval' <= 850
           /\ (UpdateRuns /\ now - start_time > 0) =>
                 spawn_interval' = Ramp(now - start_time)
           /\ (pc = "events" /\ pc' = "draw") => spawn_interval' <= spawn_interval
           /\ (~playing /\ playing') => spawn_interval' = 850 ]_vars

\* The ramp has reached its lower limit in a round that a long pause
\* stretched; and at 14.15 s of a round the interval is 0.77 s.
C9_Witness ==
    /\ pc = "draw"
    /\ spawn_interval = 350
    /\ elapsed > 65000

C9_WitnessRamp ==
    /\ pc = "draw"
    /\ playing
    /\ elapsed = 14150
    /\ spawn_interval = 770

----------------------------------------------------------------------------
(* C10.  A click while not playing starts a round and does nothing else:   *)
(* playing and not paused afterwards, no targets, no floating texts,       *)
(* score, hits, misses, timeouts and elapsed 0, spawn_interval 850,        *)
(* start_time and last_spawn the current clock value, best_score as        *)
(* before.                                                                 *)

C10_RoundStartReset ==
    [][ \A pos \in ClickPoints :
          (ClickAt(pos) /\ ~playing) =>
             /\ playing' /\ ~paused'
             /\ targets' = <<>>
             /\ floating_texts' = <<>>
             /\ score' = 0 /\ hits' = 0 /\ misses' = 0 /\ timeouts' = 0
             /\ elapsed' = 0
             /\ spawn_interval' = 850
             /\ start_time' = now
             /\ last_spawn' = now
             /\ best_score' = best_score
      ]_vars

\* A round has just been started over the end of an earlier one, which left
\* a best score.
C10_Witness ==
    /\ pc = "events"
    /\ playing
    /\ start_time = now
    /\ elapsed = 0
    /\ targets = <<>>
    /\ floating_texts = <<>>
    /\ best_score > 0
    /\ now > ROUND_TIME

----------------------------------------------------------------------------
(* The largest element of a non-empty sequence of integers.                *)

MaxOf(q) == CHOOSE m \in {q[i] : i \in 1..Len(q)} :
                \A i \in 1..Len(q) : q[i] <= m

----------------------------------------------------------------------------
(* C11.  In a run without a reset-best command best_score never decreases, *)
(* a round start leaves it as it is, and once at least one round has ended *)
(* it equals the larger of 0 and the largest final score of the rounds     *)
(* that have ended: it is 0 while every ended round had a negative final   *)
(* score.                                                                  *)

C11_BestScoreMax ==
    /\ [](h_finals # <<>> =>
             best_score = (IF MaxOf(h_finals) > 0 THEN MaxOf(h_finals) ELSE 0))
    /\ [][ /\ best_score' >= best_score
           /\ (~playing /\ playing') => best_score' = best_score ]_vars

\* Two rounds have ended, the first with a positive final score and the
\* second with a negative one.
C11_Witness ==
    /\ Len(h_finals) = 2
    /\ h_finals[1] > 0
    /\ h_finals[2] < 0
    /\ best_score = h_finals[1]
    /\ ~playing

\* The claim as stated: best_score is the largest final score also when
\* every ended round had a negative final score.
C11_AsStated ==
    h_finals # <<>> => best_score = MaxOf(h_finals)

----------------------------------------------------------------------------
(* C12.  A reset-best command is accepted whenever events are handled,     *)
(* whether the game is idle, playing, paused or over, and it sets          *)
(* best_score to 0 and changes nothing else: playing, paused, score, hits, *)
(* misses, timeouts, elapsed, start_time, spawn_interval, last_spawn, the  *)
(* targets and the floating texts stay as they are.                        *)

C12_ResetBestOnly ==
    /\ []((pc = "events" /\ inputs_left > 0) => ENABLED ResetBest)
    /\ [][ ResetBest =>
             /\ best_score' = 0
             /\ UNCHANGED <<playing, paused, score, hits, misses, timeouts,
                            elapsed, start_time, spawn_interval, last_spawn,
                            targets, floating_texts>> ]_vars

\* The best score that an ended round left has been reset while the round
\* is over, its score and a target still in place.
C12_Witness ==
    /\ pc = "events"
    /\ ~playing
    /\ Len(h_finals) = 1
    /\ h_finals[1] > 0
    /\ score = h_finals[1]
    /\ best_score = 0
    /\ targets # <<>>

----------------------------------------------------------------------------
(* C13.  An update that runs with a clock value below the one of the last  *)
(* update of the round that ran (start_time + elapsed, which is start_time *)
(* right after the round start) changes nothing; an update that changes    *)
(* something leaves elapsed at 0 or above and finds no target with a       *)
(* negative age; elapsed is never negative.                                *)

C13_NonMonotonicGuard ==
    /\ [](elapsed >= 0)
    /\ [][ UpdateRuns =>
             \/ UNCHANGED simVars
             \/ /\ now >= start_time + elapsed
                /\ elapsed' >= 0
                /\ \A i \in 1..Len(targets) : now - targets[i].spawn_time >= 0
          ]_vars

----------------------------------------------------------------------------
(* C14.  With ROUND_TIME = None no step moves a round from playing to not  *)
(* playing and no update changes best_score, while every update that runs  *)
(* leaves elapsed = now - start_time and, when that is above 0,            *)
(* spawn_interval = 850 - floor(elapsed / 5000) * 40 limited to [350, 850].*)

C14_Endless ==
    [][ /\ playing => playing'
        /\ (pc = "events" /\ pc' = "draw") => best_score' = best_score
        /\ UpdateRuns =>
              /\ elapsed' = now - start_time
              /\ (now - start_time > 0 => spawn_interval' = Ramp(now - start_time))
      ]_vars

\* The round is still played at 15 s, where the interval is 0.73 s.
C14_Witness ==
    /\ round_time = {}
    /\ pc = "draw"
    /\ playing
    /\ elapsed = ROUND_TIME
    /\ spawn_interval = 730

----------------------------------------------------------------------------
(* C15.  An update that runs appends exactly one target, before its expiry *)
(* step, and sets last_spawn to now if now - last_spawn is at least the    *)
(* spawn interval of that update (the value its ramp step leaves) and      *)
(* fewer than 7 targets are live; otherwise it appends none and leaves     *)
(* last_spawn as it is, so that a spawn that is due stays due in the       *)
(* updates that follow.  The spawn condition is false of a full list       *)
(* whatever the time since the last spawn, and true of a list of 6 once    *)
(* the interval has passed.                                                *)

\* A list of n targets.
ListOf(n) ==
    [i \in 1..n |-> [x |-> 300, y |-> 300, r |-> 36, spawn_time |-> 0,
                     lifetime |-> 1700]]

C15_SpawnGating ==
    /\ \A n \in {0, 849, 850, 15000} : ~SpawnDue(n, 0, 850, ListOf(7))
    /\ SpawnDue(850, 0, 850, ListOf(6))
    /\ ~SpawnDue(849, 0, 850, ListOf(6))
    /\ [][ UpdateRuns =>
             LET kept == Young(targets, now)
             IN  IF now - last_spawn >= spawn_interval' /\ Len(targets) < 7
                 THEN /\ Len(targets') = Len(kept) + 1
                      /\ SubSeq(targets', 1, Len(kept)) = kept
                      /\ targets'[Len(targets')].spawn_time = now
                      /\ last_spawn' = now
                 ELSE /\ targets' = kept
                      /\ last_spawn' = last_spawn
                      /\ (now - last_spawn >= spawn_interval' =>
                            now - last_spawn' >= spawn_interval')
          ]_vars

\* A target has been spawned exactly one spawn interval after the one
\* before it.
C15_Witness ==
    /\ pc = "draw"
    /\ playing
    /\ last_spawn = now
    /\ Len(targets) = 2
    /\ targets[2].spawn_time = now
    /\ targets[1].spawn_time = now - spawn_interval

----------------------------------------------------------------------------
(* C16.  In every state paused implies playing, and therefore every round  *)
(* start (a click while not playing) leaves the game not paused, although  *)
(* start_round does not assign paused.                                     *)

C16_StartUnpaused ==
    /\ [](paused => playing)
    /\ [][ (~playing /\ playing') => (~paused /\ ~paused') ]_vars

\* A round has ended and the next one has just been started, two input
\* events having been handled before.
C16_Witness ==
    /\ pc = "events"
    /\ playing
    /\ ~paused
    /\ start_time = now
    /\ elapsed = 0
    /\ Len(h_finals) = 1
    /\ inputs_left = MaxInputs - 2

----------------------------------------------------------------------------
(* C17.  A click handled while the game is playing and paused is resolved  *)
(* as one while it is not paused: if the outer radius of a live target     *)
(* reaches the point, a closest such target leaves the list, its ring      *)
(* score is added and hits grows by one; otherwise 5 is taken from score,  *)
(* misses grows by one and the targets stay; in both cases one floating    *)
(* text is appended and paused stays set.  An update while paused changes  *)
(* nothing.                                                                *)

C17_ClickWhilePaused ==
    [][ /\ \A pos \in ClickPoints :
             (ClickAt(pos) /\ playing /\ paused) =>
                /\ paused'
                /\ playing'
                /\ Len(floating_texts') = Len(floating_texts) + 1
                /\ SubSeq(floating_texts', 1, Len(floating_texts)) = floating_texts
                /\ IF Reaching(pos) = {}
                   THEN /\ score' = score - 5
                        /\ misses' = misses + 1
                        /\ UNCHANGED <<targets, hits>>
                   ELSE \E i \in Reaching(pos) :
                           /\ \A j \in Reaching(pos) :
                                 SqDist(targets[i], pos) <= SqDist(targets[j], pos)
                           /\ targets' = Without(targets, i)
                           /\ score' = score + RingPoints(targets[i].r,
                                                          SqDist(targets[i], pos))
                           /\ hits' = hits + 1
                           /\ misses' = misses
        /\ (UpdateSkips /\ paused) =>
              UNCHANGED <<playing, targets, spawn_interval, last_spawn, elapsed,
                          score, timeouts, best_score, floating_texts>>
      ]_vars

\* The game was paused in an earlier frame, so that the update of that
\* frame was skipped, and the only click of the round, made in this frame,
\* has hit the bullseye of a target.
C17_Witness ==
    /\ pc = "events"
    /\ playing
    /\ paused
    /\ h_click # <<>>
    /\ inputs_left = MaxInputsClicks - 2
    /\ now - start_time - elapsed >= 1700
    /\ hits = 1
    /\ score = 10
    /\ floating_texts[Len(floating_texts)].birth = now

----------------------------------------------------------------------------
(* C18.  While the game is not playing an update changes nothing: score,   *)
(* hits, misses, timeouts, elapsed, spawn_interval, last_spawn, best_score *)
(* and the targets stay as they are.  From the end of a round to the next  *)
(* round start no step changes the targets, the score or timeouts; the     *)
(* next round start empties the list.                                      *)

C18_IdleUpdate ==
    [][ /\ (UpdateSkips /\ ~playing) =>
              UNCHANGED <<playing, score, hits, misses, timeouts, elapsed,
                          spawn_interval, last_spawn, best_score, targets>>
        /\ (~playing /\ ~playing') =>
              UNCHANGED <<targets, score, timeouts, hits, misses>>
        /\ (~playing /\ playing') => targets' = <<>>
      ]_vars

\* An update after the end of a round has left in the list a target that
\* is older than its lifetime.
C18_Witness ==
    /\ pc = "draw"
    /\ ~playing
    /\ Len(h_finals) = 1
    /\ now > start_time + elapsed
    /\ \E i \in 1..Len(targets) : now - targets[i].spawn_time > targets[i].lifetime

----------------------------------------------------------------------------
(* C19.  With ROUND_TIME = 15 s, if the loop of run goes on, the clock     *)
(* advances and the game does not stay paused for ever, every round that   *)
(* is being played comes to its end (playing becomes false), whatever      *)
(* clicks are made during it.                                              *)

C19_RoundsEnd == playing ~> ~playing

\* A round in which a click missed and which was paused for a while has
\* ended.
C19_Witness ==
    /\ pc = "draw"
    /\ ~playing
    /\ Len(h_finals) = 1
    /\ misses = 1
    /\ h_played < elapsed
    /\ elapsed >= ROUND_TIME

----------------------------------------------------------------------------
(* C20.  When the outer radius of two or more live targets reaches the     *)
(* point of a click and two or more of them are at the same smallest       *)
(* distance from it, the click hits the one of these with the lowest index *)
(* in the list, the earliest spawned: it leaves the list and the ring      *)
(* score of its own radius is added.                                       *)

\* The indices of the targets reaching pos at the smallest distance.
Closest(pos) ==
    {i \in Reaching(pos) :
        \A j \in Reaching(pos) : SqDist(targets[i], pos) <= SqDist(targets[j], pos)}

\* The smallest element of a non-empty set of integers.
MinOf(S) == CHOOSE m \in S : \A k \in S : m <= k

C20_TieBreak ==
    [][ \A pos \in ClickPoints :
          (ClickAt(pos) /\ playing /\ Cardinality(Closest(pos)) >= 2) =>
             LET i == MinOf(Closest(pos))
             IN  /\ \A j \in Closest(pos) :
                       targets[i].spawn_time <= targets[j].spawn_time
                 /\ targets' = Without(targets, i)
                 /\ \A j \in Closest(pos) \ {i} :
                       \E k \in 1..Len(targets') : targets'[k] = targets[j]
                 /\ score' = score + RingPoints(targets[i].r, SqDist(targets[i], pos))
                 /\ floating_texts'[Len(floating_texts')].x = targets[i].x
      ]_vars

\* The click at x = 309, 9 pixels from the centers of both targets, has hit
\* the earlier target of radius 20 in its middle ring; the later target of
\* radius 36, whose bullseye the point is in, stays.
C20_Witness ==
    /\ pc = "events"
    /\ h_click = <<309, 300>>
    /\ Len(targets) = 1
    /\ targets[1].x = 300
    /\ hits = 1
    /\ score = 5
    /\ floating_texts[Len(floating_texts)].x = 318
    /\ floating_texts[Len(floating_texts)].text = "+5"

====
